---- MODULE Spec2Model ----
(***************************************************************************)
(* A model of the zune-image channel/frame storage (frame.rs), of the      *)
(* bilateral filter (bilateral_filter.rs) and of the python binding's      *)
(* exec_filter (py_image.rs).                                              *)
(*                                                                         *)
(* Real numbers: a sigma is an integer number of tenths (75.0 is 750), a   *)
(* Gaussian coefficient -0.5/sigma^2 is kept as the sigma it was computed  *)
(* from, and a weight is a fixed-point number with One standing for 1.0.   *)
(* NaN is the only negative weight.                                        *)
(***************************************************************************)
EXTENDS Integers, Sequences, FiniteSets, TLC

(* ------------------------------------------------------------ bounds --- *)
\* width and height of the image handed to the filter
ImgW == 2
ImgH == 2

(* ------------------------------------------- element kinds, channels --- *)
BitTypes == {"U8", "U16", "F32"}

size_of(kind) == CASE kind = "U8" -> 1 [] kind = "U16" -> 2 [] OTHER -> 4

\* BitDepth::max_value
max_value(kind) == CASE kind = "U8" -> 255 [] kind = "U16" -> 65535 [] OTHER -> 1

Channel(kind, data) == [kind |-> kind, data |-> data]

\* Channel::len: the length of the storage in bytes
channel_len(ch) == Len(ch.data) * size_of(ch.kind)

\* Channel::new_with_bit_type(length in bytes, kind): zeroed storage
new_with_bit_type(len, kind) ==
    Channel(kind, [i \in 1..(len \div size_of(kind)) |-> 0])

\* the slip of handing out the storage whatever its kind
reinterpret_as_unchecked(ch, kind) == [ok |-> TRUE, view |-> ch.data]

\* Channel::reinterpret_as::<T> / reinterpret_as_mut::<T>
reinterpret_as(ch, kind) ==
    IF ch.kind = kind
    THEN [ok |-> TRUE, view |-> ch.data]
    ELSE [ok |-> FALSE, err |-> <<"WrongTypeId", ch.kind, kind>>]

(* ------------------------------------------------------- colorspaces --- *)
ColorSpaces == {"Luma", "LumaA", "RGB", "RGBA", "CMYK"}

num_components(cs) ==
    CASE cs = "Luma" -> 1 [] cs = "LumaA" -> 2 [] cs = "RGB" -> 3 [] OTHER -> 4

has_alpha(cs) == cs \in {"LumaA", "RGBA"}

(* ------------------------------------------------------------- Frame --- *)
\* A frame is the sequence of its channels.  A slice past the end of the
\* channels, an unwrap of a failed typed view and the explicit panic! all panic.

\* the slip of dropping the last channel whenever ignore_alpha is set
get_channels_ref_no_alpha_test(channels, colorspace, ignore_alpha) ==
    LET end == IF ignore_alpha
               THEN num_components(colorspace) - 1
               ELSE num_components(colorspace)
    IN  IF end > Len(channels)
        THEN [panic |-> TRUE, slice |-> << >>]
        ELSE [panic |-> FALSE, slice |-> SubSeq(channels, 1, end)]

\* Frame::get_channels_ref
get_channels_ref(channels, colorspace, ignore_alpha) ==
    LET end == IF ignore_alpha /\ has_alpha(colorspace)
               THEN num_components(colorspace) - 1
               ELSE num_components(colorspace)
    IN  IF end > Len(channels)
        THEN [panic |-> TRUE, slice |-> << >>]
        ELSE [panic |-> FALSE, slice |-> SubSeq(channels, 1, end)]

\* the slip of handing out the alpha channel whatever ignore_alpha says
get_channels_mut_with_alpha(channels, colorspace, ignore_alpha) ==
    LET end == num_components(colorspace)
    IN  IF end > Len(channels)
        THEN [panic |-> TRUE, slice |-> << >>]
        ELSE [panic |-> FALSE, slice |-> SubSeq(channels, 1, end)]

\* Frame::get_channels_mut
get_channels_mut(channels, colorspace, ignore_alpha) ==
    LET end == IF ignore_alpha /\ has_alpha(colorspace)
               THEN num_components(colorspace) - 1
               ELSE num_components(colorspace)
    IN  IF end > Len(channels)
        THEN [panic |-> TRUE, slice |-> << >>]
        ELSE [panic |-> FALSE, slice |-> SubSeq(channels, 1, end)]

\* the shortest of the first n channels: where a zip over them ends
RECURSIVE zip_len(_, _)
zip_len(channels, n) ==
    IF n = 1 THEN Len(channels[1].data)
    ELSE IF Len(channels[n].data) < zip_len(channels, n - 1)
         THEN Len(channels[n].data) ELSE zip_len(channels, n - 1)

\* the slip of checking the channels the colorspace selects only
rgba_type_check_selected(channels, colorspace) ==
    {k \in 1..Len(channels) : k <= num_components(colorspace) /\ channels[k].kind # "U8"}

\* flatten_rgba, lines 137-148: the channels that are not u8
rgba_type_check(channels, colorspace) ==
    {k \in 1..Len(channels) : channels[k].kind # "U8"}

\* the slip of leaving the alpha byte of the 1- and 3-component arms unset
rgba_byte_no_opaque_alpha(channels, n, i, b) ==
    CASE n = 1 -> IF b = 3 THEN 0 ELSE channels[1].data[i]
      [] n = 2 -> IF b = 3 THEN channels[2].data[i] ELSE channels[1].data[i]
      [] n = 3 -> IF b = 3 THEN 0 ELSE channels[b + 1].data[i]
      [] OTHER -> channels[b + 1].data[i]

\* flatten_rgba, lines 150-217: byte b (0..3) of output pixel i (1-based)
rgba_byte(channels, n, i, b) ==
    CASE n = 1 -> IF b = 3 THEN 255 ELSE channels[1].data[i]
      [] n = 2 -> IF b = 3 THEN channels[2].data[i] ELSE channels[1].data[i]
      [] n = 3 -> IF b = 3 THEN 255 ELSE channels[b + 1].data[i]
      [] OTHER -> channels[b + 1].data[i]

\* Frame::flatten_rgba: the result and the content of out_pixel afterwards
flatten_rgba(channels, colorspace, out_pixel) ==
    LET bad == rgba_type_check(channels, colorspace)
        n == num_components(colorspace)
    IN  IF bad # {}
        THEN [ret |-> <<"WrongTypeId",
                        channels[CHOOSE k \in bad : \A j \in bad : k <= j].kind, "U8">>,
              out |-> out_pixel]
        ELSE IF n > Len(channels)
        THEN [ret |-> <<"panic">>, out |-> out_pixel]
        ELSE LET pixels == IF Len(out_pixel) \div 4 < zip_len(channels, n)
                           THEN Len(out_pixel) \div 4 ELSE zip_len(channels, n)
             IN  [ret |-> <<"Ok">>,
                  out |-> [p \in 1..Len(out_pixel) |->
                             IF (p - 1) \div 4 < pixels
                             THEN rgba_byte(channels, n, ((p - 1) \div 4) + 1, (p - 1) % 4)
                             ELSE out_pixel[p]]]

\* the slip of returning the channels one after the other (planar)
flatten_planar(channels, colorspace, T) ==
    LET n == num_components(colorspace)
    IN  IF n > Len(channels) \/ \E k \in 1..n : ~reinterpret_as(channels[k], T).ok
        THEN [panic |-> TRUE, vec |-> << >>]
        ELSE IF n = 1
        THEN [panic |-> FALSE, vec |-> channels[1].data]
        ELSE [panic |-> FALSE,
              vec |-> [p \in 1..(n * zip_len(channels, n)) |->
                         channels[((p - 1) \div zip_len(channels, n)) + 1]
                             .data[((p - 1) % zip_len(channels, n)) + 1]]]

\* Frame::flatten::<T>
flatten(channels, colorspace, T) ==
    LET n == num_components(colorspace)
    IN  IF n > Len(channels) \/ \E k \in 1..n : ~reinterpret_as(channels[k], T).ok
        THEN [panic |-> TRUE, vec |-> << >>]
        ELSE IF n = 1
        THEN [panic |-> FALSE, vec |-> channels[1].data]
        ELSE [panic |-> FALSE,
              vec |-> [p \in 1..(n * zip_len(channels, n)) |->
                         channels[((p - 1) % n) + 1].data[((p - 1) \div n) + 1]]]

\* the slip of a fixed byte order: u16::to_be_bytes
to_be_bytes(x, little) == << x \div 256, x % 256 >>

\* u16::to_ne_bytes on a little-endian or big-endian host
to_ne_bytes(x, little) ==
    IF little THEN << x % 256, x \div 256 >> ELSE << x \div 256, x % 256 >>

\* Frame::u16_to_native_endian
u16_to_native_endian(channels, colorspace, little) ==
    LET n == num_components(colorspace)
    IN  IF (\E k \in 1..Len(channels) : channels[k].kind # "U16")
           \/ Len(channels) = 0 \/ n > Len(channels)
        THEN [panic |-> TRUE, vec |-> << >>]
        ELSE LET length == channel_len(channels[1]) * n
                 chunks == IF length \div (2 * n) < zip_len(channels, n)
                           THEN length \div (2 * n) ELSE zip_len(channels, n)
             IN  [panic |-> FALSE,
                  vec |-> [p \in 1..length |->
                             IF (p - 1) \div (2 * n) < chunks
                             THEN to_ne_bytes(
                                      channels[(((p - 1) % (2 * n)) \div 2) + 1]
                                          .data[((p - 1) \div (2 * n)) + 1],
                                      little)[((p - 1) % 2) + 1]
                             ELSE 0]]

(* ------------------------------------------------- small arithmetic --- *)
Min(a, b) == IF a < b THEN a ELSE b
Max(a, b) == IF a > b THEN a ELSE b
Abs(a) == IF a < 0 THEN 0 - a ELSE a

NaN == 0 - 1
IsNaN(x) == x < 0

\* ExpTable[q + 1] is exp(-q/4) in fixed point
ExpTable == << 256, 199, 155, 121, 94, 73, 57, 44, 35, 27, 21, 16, 13, 10,
               8, 6, 5, 4, 3, 2, 2, 1 >>
One == ExpTable[1]

\* f32 (x2 * coeff).exp() with coeff = -0.5 / (sigma * sigma), sigma in tenths:
\* the exponent is -(50 * x2) / sigma^2.  sigma = 0 gives coeff = -inf, and
\* 0 * -inf is NaN.  Below exp(-104) an f32 is 0; every other value is > 0.
gauss(x2, sigma) ==
    IF sigma = 0 THEN (IF x2 = 0 THEN NaN ELSE 0)
    ELSE IF x2 >= 4 * sigma * sigma \/ 25 * x2 > 52 * sigma * sigma THEN 0
    ELSE LET q == (200 * x2) \div (sigma * sigma)
         IN  IF q < Len(ExpTable) THEN ExpTable[q + 1] ELSE 1

\* f32 product and sum of weights
FMul(a, b) ==
    IF IsNaN(a) \/ IsNaN(b) THEN NaN
    ELSE IF a = 0 \/ b = 0 THEN 0
    ELSE Max(1, (a * b) \div One)

FAdd(a, b) == IF IsNaN(a) \/ IsNaN(b) THEN NaN ELSE a + b

\* (sum / wsum).round(): half away from zero; 0/0 and NaN/x are NaN
FDivRound(sum, wsum) ==
    IF IsNaN(sum) \/ IsNaN(wsum) \/ wsum = 0 THEN NaN
    ELSE (sum \div wsum) + (IF 2 * (sum % wsum) >= wsum THEN 1 ELSE 0)

\* NumOps::from_f32: the saturating cast of the numeric policy, NaN to 0
from_f32(x, kind) == IF IsNaN(x) THEN 0 ELSE Min(x, max_value(kind))

(* ---------------------------------------------------- init_bilateral --- *)
\* (sigma_space * 1.5).round() as i32, sigma_space > 0 in tenths
round_radius(sigma_space) == (3 * sigma_space + 10) \div 20

\* the offsets (i, j) in the order of the loops: i outer, j inner
Offsets(radius) ==
    [k \in 1..((2 * radius + 1) * (2 * radius + 1)) |->
        << ((k - 1) \div (2 * radius + 1)) - radius,
           ((k - 1) % (2 * radius + 1)) - radius >>]

\* the slip of giving every offset of the square an entry, corners included
RECURSIVE space_loop_square(_, _, _, _, _)
space_loop_square(offs, k, radius, coeff, acc) ==
    IF k > Len(offs) THEN acc
    ELSE LET r2 == offs[k][1] * offs[k][1] + offs[k][2] * offs[k][2]
         IN  IF acc.makx >= Len(acc.space_weight)
             THEN [acc EXCEPT !.panic = TRUE]
             ELSE space_loop_square(offs, k + 1, radius, coeff,
                    [acc EXCEPT !.space_weight[acc.makx + 1] = gauss(r2, coeff),
                                !.makx = acc.makx + 1])

\* the loop over the offsets from offset number k on: writes space_weight[makx]
\* (0-based makx) for every offset inside the circle; a write at or past the
\* end of the vector panics.
RECURSIVE space_loop(_, _, _, _, _)
space_loop(offs, k, radius, coeff, acc) ==
    IF k > Len(offs) THEN acc
    ELSE LET r2 == offs[k][1] * offs[k][1] + offs[k][2] * offs[k][2]
         IN  IF r2 > radius * radius
             THEN space_loop(offs, k + 1, radius, coeff, acc)
             ELSE IF acc.makx >= Len(acc.space_weight)
                  THEN [acc EXCEPT !.panic = TRUE]
                  ELSE space_loop(offs, k + 1, radius, coeff,
                         [acc EXCEPT !.space_weight[acc.makx + 1] = gauss(r2, coeff),
                                     !.makx = acc.makx + 1])

init_bilateral(d, sigma_color, sigma_space_in, color_range) ==
    LET gauss_color_coeff == sigma_color
        gauss_space_coeff == sigma_space_in
        sigma_space == IF sigma_space_in <= 0 THEN 10 ELSE sigma_space_in
        radius == IF d <= 0 THEN round_radius(sigma_space) ELSE d \div 2
        acc == space_loop(Offsets(radius), 1, radius, gauss_space_coeff,
                   [space_weight |-> [i \in 1..(d * d) |-> 0],
                    makx |-> 0, panic |-> FALSE])
    IN  [panic |-> acc.panic,
         color_weight |-> [len |-> color_range, coeff |-> gauss_color_coeff],
         space_weight |-> acc.space_weight,
         radius |-> radius,
         makx |-> acc.makx]

\* color_weight[i] = (c * c * gauss_color_coeff).exp()
color_weight_at(cw, i) ==
    IF cw.coeff # 0 /\ i >= 2 * Abs(cw.coeff) THEN 0 ELSE gauss(i * i, cw.coeff)

(* ------------------------------------------------------ pad, spatial --- *)
Clamp(x, lo, hi) == Max(lo, Min(x, hi))

\* pad(src, width, height, pad_x, pad_y, PadMethod::Replicate): element
\* (x, y) of the padded buffer, 0-based
padded_at(src, width, height, radius, x, y) ==
    src[Clamp(y - radius, 0, height - 1) * width + Clamp(x - radius, 0, width - 1) + 1]

\* the window spatial() hands to the kernel for output pixel (x, y): the
\* (2 * radius + 1)^2 padded elements starting at (x, y), row-major
window(src, width, height, radius, x, y) ==
    [k \in 1..((2 * radius + 1) * (2 * radius + 1)) |->
        padded_at(src, width, height, radius,
                  x + ((k - 1) % (2 * radius + 1)),
                  y + ((k - 1) \div (2 * radius + 1)))]

(* ---------------------------------------------- bilateral_filter_int --- *)
RECURSIVE bilateral_sum(_, _, _, _, _, _)
bilateral_sum(area, coeffs, val0, k, n, acc) ==
    IF k > n THEN acc
    ELSE LET val == area[k]
             abs_val == Abs(val - val0)
             w == FMul(coeffs.space_weight[k], color_weight_at(coeffs.color_weight, abs_val))
         IN  bilateral_sum(area, coeffs, val0, k + 1, n,
                 [sum |-> FAdd(acc.sum, IF IsNaN(w) THEN NaN ELSE val * w),
                  wsum |-> FAdd(acc.wsum, w)])

bilateral_mid(radius) == (radius + 1) \div 2

\* the slip of rounding the weighted sum without dividing it by wsum
bilateral_func_unnormalised(area, coeffs, kind) ==
    LET mid == bilateral_mid(coeffs.radius)
        val0 == area[mid + 1]
        n == Min(Min(Len(area), Len(coeffs.space_weight)), coeffs.makx)
        s == bilateral_sum(area, coeffs, val0, 1, n, [sum |-> 0, wsum |-> 0])
    IN  from_f32(FDivRound(s.sum, One), kind)

bilateral_func(area, coeffs, kind) ==
    LET mid == bilateral_mid(coeffs.radius)
        val0 == area[mid + 1]
        n == Min(Min(Len(area), Len(coeffs.space_weight)), coeffs.makx)
        s == bilateral_sum(area, coeffs, val0, 1, n, [sum |-> 0, wsum |-> 0])
    IN  from_f32(FDivRound(s.sum, s.wsum), kind)

bilateral_filter_int(src, dest, width, height, coeffs, kind) ==
    [p \in 1..Len(dest) |->
        IF p <= width * height
        THEN bilateral_func(window(src, width, height, coeffs.radius,
                                   (p - 1) % width, (p - 1) \div width),
                            coeffs, kind)
        ELSE dest[p]]

(* ------------------------------------------------- BilateralFilter --- *)
\* BilateralFilter::name
name == "Bilateral Filter"

\* BilateralFilter::supported_types
supported_types == {"U8", "U16"}

Ok == <<"Ok">>
NotImplemented(kind) == <<"ImageOperationNotImplemented", name, kind>>
Panic == <<"panic">>

\* Image::channels_mut(ignore_alpha): the channels of the frame that
\* Frame::get_channels_mut gives for the image's colorspace
channels_mut(img, ignore_alpha) ==
    get_channels_mut(img.channels, img.colorspace, ignore_alpha).slice

\* the slip of sizing the fresh channel by the sample count, not the byte length
worker_alloc_by_samples(channel, depth) ==
    new_with_bit_type(Len(channel.data), depth)

\* line 51 (threads) and line 91 (sequential): the fresh channel
worker_alloc(channel, depth) == new_with_bit_type(channel_len(channel), depth)

loop_alloc(channel, depth) == new_with_bit_type(channel_len(channel), depth)

\* lines 52-74, the worker of one channel (threads): the dispatch on the
\* depth's bit type, the typed views and the kernel, which fills new_channel
worker_compute(channel, fresh, depth, w, h, c) ==
    LET src == reinterpret_as(channel, depth)
        dst == reinterpret_as(fresh, depth)
    IN  CASE depth = "U8" ->
               IF ~src.ok THEN [ok |-> FALSE, err |-> src.err]
               ELSE IF ~dst.ok THEN [ok |-> FALSE, err |-> dst.err]
               ELSE [ok |-> TRUE, new_channel |->
                       Channel(fresh.kind,
                               bilateral_filter_int(src.view, dst.view, w, h, c, "U8"))]
          [] depth = "U16" ->
               IF ~src.ok THEN [ok |-> FALSE, err |-> src.err]
               ELSE IF ~dst.ok THEN [ok |-> FALSE, err |-> dst.err]
               ELSE [ok |-> TRUE, new_channel |->
                       Channel(fresh.kind,
                               bilateral_filter_int(src.view, dst.view, w, h, c, "U16"))]
          [] OTHER -> [ok |-> FALSE, err |-> NotImplemented(depth)]

\* lines 92-115, the same in the sequential loop
loop_compute(channel, fresh, depth, w, h, c) ==
    LET src == reinterpret_as(channel, depth)
        dst == reinterpret_as(fresh, depth)
    IN  CASE depth = "U8" ->
               IF ~src.ok THEN [ok |-> FALSE, err |-> src.err]
               ELSE IF ~dst.ok THEN [ok |-> FALSE, err |-> dst.err]
               ELSE [ok |-> TRUE, new_channel |->
                       Channel(fresh.kind,
                               bilateral_filter_int(src.view, dst.view, w, h, c, "U8"))]
          [] depth = "U16" ->
               IF ~src.ok THEN [ok |-> FALSE, err |-> src.err]
               ELSE IF ~dst.ok THEN [ok |-> FALSE, err |-> dst.err]
               ELSE [ok |-> TRUE, new_channel |->
                       Channel(fresh.kind,
                               bilateral_filter_int(src.view, dst.view, w, h, c, "U16"))]
          [] OTHER -> [ok |-> FALSE, err |-> NotImplemented(depth)]

(* -------------------------------- execute_impl, run to completion --- *)
\* the sequential path (lines 88-121) from channel k on
RECURSIVE seq_loop(_, _, _)
seq_loop(img, k, c) ==
    IF k > Len(channels_mut(img, TRUE))
    THEN [ret |-> Ok, channels |-> img.channels]
    ELSE LET r == loop_compute(img.channels[k], loop_alloc(img.channels[k], img.depth),
                               img.depth, img.width, img.height, c)
         IN  IF r.ok
             THEN seq_loop([img EXCEPT !.channels[k] = r.new_channel], k + 1, c)
             ELSE [ret |-> r.err, channels |-> img.channels]

\* the threaded path (lines 45-86, 121): every worker runs, on a channel of
\* its own; the collect gives the first Err in channel order
threads_run(img, c) ==
    LET sel == Len(channels_mut(img, TRUE))
        r == [k \in 1..sel |->
                 worker_compute(img.channels[k], worker_alloc(img.channels[k], img.depth),
                                img.depth, img.width, img.height, c)]
        failed == {k \in 1..sel : ~r[k].ok}
    IN  [ret |-> IF failed = {} THEN Ok
                 ELSE r[CHOOSE k \in failed : \A j \in failed : k <= j].err,
         channels |-> [k \in 1..Len(img.channels) |->
                          IF k <= sel /\ r[k].ok THEN r[k].new_channel
                          ELSE img.channels[k]]]

\* execute_impl as a function of the filter, the image and the build
execute_impl(f, img, with_threads) ==
    LET c == init_bilateral(f.d, f.sigma_color, f.sigma_space, max_value(img.depth) + 1)
    IN  IF c.panic THEN [ret |-> Panic, channels |-> img.channels]
        ELSE IF with_threads THEN threads_run(img, c)
        ELSE seq_loop(img, 1, c)

(* ------------------------------------------------------------- state --- *)
VARIABLES
    filter,       \* the BilateralFilter: d, sigma_color, sigma_space
    image,        \* the image: depth, colorspace, width, height, channels
    orig,         \* the channels of the image when execute_impl was called
    threads,      \* whether the build has the "threads" feature
    pc,           \* where execute_impl is
    coeffs,       \* the BilateralCoeffs of this call
    idx,          \* the channel the spawn loop / join / sequential loop is at
    wpc,          \* per channel, where its worker is
    new_channel,  \* per channel, the worker's (or loop iteration's) new_channel
    wres,         \* per channel, what its worker returned
    collected,    \* what the collect over the join handles gave
    ret,          \* what execute_impl returned
    \* a call of a Frame method
    frame,        \* the channels of the Frame
    host_le,      \* whether the host is little-endian
    fpc,          \* "idle" before the call, "returned" after it
    fcall,        \* the method called and its arguments
    fresult,      \* what the call gave
    \* a call of the python binding's exec_filter
    py_img,       \* the caller's ZImage
    py_orig,      \* the caller's ZImage when exec_filter was called
    py_filter,    \* the filter handed to exec_filter
    py_in_place,  \* the in_place argument
    py_threads,   \* whether the build has the "threads" feature
    py_clone,     \* im_clone
    py_pc,        \* where exec_filter is
    py_ret        \* what exec_filter returned

bvars == << filter, image, orig, threads, pc, coeffs, idx, wpc, new_channel,
            wres, collected, ret >>
fvars == << frame, host_le, fpc, fcall, fresult >>
evars == << py_img, py_orig, py_filter, py_in_place, py_threads, py_clone, py_pc, py_ret >>
vars == << bvars, fvars, evars >>

None == << >>
NoCoeffs == [panic |-> FALSE, color_weight |-> [len |-> 0, coeff |-> 0],
             space_weight |-> << >>, radius |-> 0, makx |-> 0]

\* the filters tried: d, sigma_color and sigma_space (tenths)
Filters ==
    { [d |-> 1, sigma_color |-> 750, sigma_space |-> 750],
      [d |-> 2, sigma_color |-> 750, sigma_space |-> 750],
      [d |-> 3, sigma_color |-> 750, sigma_space |-> 750],
      [d |-> 5, sigma_color |-> 300, sigma_space |-> 10],
      [d |-> 3, sigma_color |-> 750, sigma_space |-> 0],
      [d |-> 0, sigma_color |-> 750, sigma_space |-> 10],
      [d |-> 0 - 1, sigma_color |-> 750, sigma_space |-> 2],
      [d |-> 0 - 4, sigma_color |-> 750, sigma_space |-> 0 - 20] }

ImageColorSpaces == {"Luma", "LumaA", "RGB", "RGBA"}

\* a kind other than the image's, for a channel that disagrees with the depth
OtherKind(kind) == IF kind = "U8" THEN "U16" ELSE "U8"

\* the samples of channel k of the image
Samples(kind, k, n) ==
    [i \in 1..n |-> CASE kind = "U8" -> (40 * i + 10 * k) % 256
                      [] kind = "U16" -> (300 * i * i + 1000 * k) % 65536
                      [] OTHER -> i + k]

\* the single intensity of channel k of a flat image
FlatSamples(kind, k, n) ==
    [i \in 1..n |-> CASE k = 1 -> max_value(kind)
                      [] k = 2 -> 0
                      [] k = 3 -> 100
                      [] OTHER -> 1]

\* images of one intensity per channel, every channel of the depth's kind
FlatImages ==
    { [depth |-> dp, colorspace |-> cs, width |-> ImgW, height |-> ImgH,
       channels |-> [k \in 1..num_components(cs) |->
                        Channel(dp, FlatSamples(dp, k, ImgW * ImgH))]] :
        <<dp, cs>> \in supported_types \X ImageColorSpaces }

VariedImages ==
    { [depth |-> dp, colorspace |-> cs, width |-> ImgW, height |-> ImgH,
       channels |-> [k \in 1..num_components(cs) |->
                        Channel(kinds[k], Samples(kinds[k], k, ImgW * ImgH))]] :
        <<dp, cs, kinds>> \in
            UNION { { <<dp, cs, kinds>> :
                        kinds \in [1..num_components(cs) -> {dp, OtherKind(dp)}] } :
                    <<dp, cs>> \in BitTypes \X ImageColorSpaces } }

Selected == Len(channels_mut(image, TRUE))
Workers == 1..Selected

Images == VariedImages \cup FlatImages

ExecuteInit ==
    /\ filter \in Filters
    /\ image \in Images
    /\ orig = image.channels
    /\ threads \in BOOLEAN
    /\ pc = "call"
    /\ coeffs = NoCoeffs
    /\ idx = 0
    /\ wpc = [k \in 1..Len(channels_mut(image, TRUE)) |-> "none"]
    /\ new_channel = [k \in 1..Len(channels_mut(image, TRUE)) |-> None]
    /\ wres = [k \in 1..Len(channels_mut(image, TRUE)) |-> None]
    /\ collected = None
    /\ ret = None

(* ------------------------------------------------------ execute_impl --- *)
\* lines 34-43: depth, dimensions and the coefficients; a panic of
\* init_bilateral unwinds out of execute_impl
Call ==
    /\ UNCHANGED << fvars, evars >>
    /\ pc = "call"
    /\ LET c == init_bilateral(filter.d, filter.sigma_color, filter.sigma_space,
                               max_value(image.depth) + 1)
       IN  IF c.panic
           THEN /\ pc' = "panicked"
                /\ ret' = Panic
                /\ UNCHANGED << coeffs, idx >>
           ELSE /\ coeffs' = c
                /\ pc' = IF threads THEN "spawn" ELSE "loop"
                /\ idx' = 1
                /\ UNCHANGED ret
    /\ UNCHANGED << filter, image, orig, threads, wpc, new_channel, wres, collected >>

\* lines 49-79: one turn of the spawn loop
Spawn ==
    /\ UNCHANGED << fvars, evars >>
    /\ pc = "spawn"
    /\ idx <= Selected
    /\ wpc' = [wpc EXCEPT ![idx] = "spawned"]
    /\ idx' = idx + 1
    /\ UNCHANGED << filter, image, orig, threads, pc, coeffs, new_channel, wres,
                    collected, ret >>

SpawnEnd ==
    /\ UNCHANGED << fvars, evars >>
    /\ pc = "spawn"
    /\ idx > Selected
    /\ pc' = "join"
    /\ idx' = 1
    /\ UNCHANGED << filter, image, orig, threads, coeffs, wpc, new_channel, wres,
                    collected, ret >>

\* the slip of taking the channel's own storage for the result: the channel
\* is zeroed before the kernel has run
WorkerAllocInPlace(k) ==
    /\ UNCHANGED << fvars, evars >>
    /\ wpc[k] = "spawned"
    /\ new_channel' = [new_channel EXCEPT ![k] = worker_alloc(image.channels[k], image.depth)]
    /\ image' = [image EXCEPT !.channels[k] = worker_alloc(image.channels[k], image.depth)]
    /\ wpc' = [wpc EXCEPT ![k] = "allocated"]
    /\ UNCHANGED << filter, orig, threads, pc, coeffs, idx, wres, collected, ret >>

\* line 51, worker k
WorkerAlloc(k) ==
    /\ UNCHANGED << fvars, evars >>
    /\ wpc[k] = "spawned"
    /\ new_channel' = [new_channel EXCEPT ![k] = worker_alloc(image.channels[k], image.depth)]
    /\ wpc' = [wpc EXCEPT ![k] = "allocated"]
    /\ UNCHANGED << filter, image, orig, threads, pc, coeffs, idx, wres, collected, ret >>

\* the slip of a worker that keeps its running position in the shared tables
WorkerComputeSharedCursor(k) ==
    /\ UNCHANGED << fvars, evars >>
    /\ wpc[k] = "allocated"
    /\ LET r == worker_compute(image.channels[k], new_channel[k], image.depth,
                               image.width, image.height, coeffs)
       IN  IF r.ok
           THEN /\ new_channel' = [new_channel EXCEPT ![k] = r.new_channel]
                /\ wpc' = [wpc EXCEPT ![k] = "computed"]
                /\ UNCHANGED wres
           ELSE /\ wres' = [wres EXCEPT ![k] = r.err]
                /\ wpc' = [wpc EXCEPT ![k] = "finished"]
                /\ UNCHANGED new_channel
    /\ coeffs' = [coeffs EXCEPT !.makx = 0]
    /\ UNCHANGED << filter, image, orig, threads, pc, idx, collected, ret >>

\* lines 52-74, worker k
WorkerCompute(k) ==
    /\ UNCHANGED << fvars, evars >>
    /\ wpc[k] = "allocated"
    /\ LET r == worker_compute(image.channels[k], new_channel[k], image.depth,
                               image.width, image.height, coeffs)
       IN  IF r.ok
           THEN /\ new_channel' = [new_channel EXCEPT ![k] = r.new_channel]
                /\ wpc' = [wpc EXCEPT ![k] = "computed"]
                /\ UNCHANGED wres
           ELSE /\ wres' = [wres EXCEPT ![k] = r.err]
                /\ wpc' = [wpc EXCEPT ![k] = "finished"]
                /\ UNCHANGED new_channel
    /\ UNCHANGED << filter, image, orig, threads, pc, coeffs, idx, collected, ret >>

\* lines 75-76, worker k: *channel = new_channel; Ok(())
WorkerStore(k) ==
    /\ UNCHANGED << fvars, evars >>
    /\ wpc[k] = "computed"
    /\ image' = [image EXCEPT !.channels[k] = new_channel[k]]
    /\ wres' = [wres EXCEPT ![k] = Ok]
    /\ wpc' = [wpc EXCEPT ![k] = "finished"]
    /\ UNCHANGED << filter, orig, threads, pc, coeffs, idx, new_channel, collected, ret >>

\* lines 81-84: join the handles in order, collecting into a Result: the
\* first Err ends the iteration
Join ==
    /\ UNCHANGED << fvars, evars >>
    /\ pc = "join"
    /\ idx <= Selected
    /\ wpc[idx] = "finished"
    /\ IF wres[idx] = Ok
       THEN /\ idx' = idx + 1
            /\ UNCHANGED << pc, collected >>
       ELSE /\ collected' = wres[idx]
            /\ pc' = "scope_end"
            /\ UNCHANGED idx
    /\ UNCHANGED << filter, image, orig, threads, coeffs, wpc, new_channel, wres, ret >>

JoinEnd ==
    /\ UNCHANGED << fvars, evars >>
    /\ pc = "join"
    /\ idx > Selected
    /\ collected' = Ok
    /\ pc' = "scope_end"
    /\ UNCHANGED << filter, image, orig, threads, coeffs, idx, wpc, new_channel,
                    wres, ret >>

\* line 85 and 121: thread::scope returns once every spawned thread has
\* finished; `?` returns the Err, otherwise execute_impl returns Ok(())
ScopeEnd ==
    /\ UNCHANGED << fvars, evars >>
    /\ pc = "scope_end"
    /\ \A k \in Workers : wpc[k] = "finished"
    /\ ret' = collected
    /\ pc' = "done"
    /\ UNCHANGED << filter, image, orig, threads, coeffs, idx, wpc, new_channel,
                    wres, collected >>

\* lines 90-91: the next channel of the sequential loop and its new_channel
LoopAlloc ==
    /\ UNCHANGED << fvars, evars >>
    /\ pc = "loop"
    /\ idx <= Selected
    /\ new_channel' = [new_channel EXCEPT ![idx] = loop_alloc(image.channels[idx], image.depth)]
    /\ pc' = "compute"
    /\ UNCHANGED << filter, image, orig, threads, coeffs, idx, wpc, wres, collected, ret >>

\* lines 92-115: `?` and the unsupported arm return from execute_impl
LoopCompute ==
    /\ UNCHANGED << fvars, evars >>
    /\ pc = "compute"
    /\ LET r == loop_compute(image.channels[idx], new_channel[idx], image.depth,
                             image.width, image.height, coeffs)
       IN  IF r.ok
           THEN /\ new_channel' = [new_channel EXCEPT ![idx] = r.new_channel]
                /\ pc' = "store"
                /\ UNCHANGED ret
           ELSE /\ ret' = r.err
                /\ pc' = "done"
                /\ UNCHANGED new_channel
    /\ UNCHANGED << filter, image, orig, threads, coeffs, idx, wpc, wres, collected >>

\* line 117: *channel = new_channel
LoopStore ==
    /\ UNCHANGED << fvars, evars >>
    /\ pc = "store"
    /\ image' = [image EXCEPT !.channels[idx] = new_channel[idx]]
    /\ idx' = idx + 1
    /\ pc' = "loop"
    /\ UNCHANGED << filter, orig, threads, coeffs, wpc, new_channel, wres,
                    collected, ret >>

\* line 121
LoopEnd ==
    /\ UNCHANGED << fvars, evars >>
    /\ pc = "loop"
    /\ idx > Selected
    /\ ret' = Ok
    /\ pc' = "done"
    /\ UNCHANGED << filter, image, orig, threads, coeffs, idx, wpc, new_channel,
                    wres, collected >>

Worker == \E k \in Workers : WorkerAlloc(k) \/ WorkerCompute(k) \/ WorkerStore(k)

(* ----------------------------------------------- calls of Frame methods --- *)
\* the most channels a frame holds, and the most samples a channel holds
MaxChannels == 4
MaxLen == 2

\* the samples of channel k of a frame
FrameSamples(kind, k, n) ==
    [i \in 1..n |-> CASE kind = "U8" -> 10 * i + (k - 1)
                      [] kind = "U16" -> 50000 + 257 * (i - 1) + 1000 * (k - 1)
                      [] OTHER -> i + k]

Frames ==
    UNION { { [k \in 1..nch |-> Channel(kinds[k], FrameSamples(kinds[k], k, n))] :
                kinds \in [1..nch -> BitTypes] } :
            <<nch, n>> \in (0..MaxChannels) \X (0..MaxLen) }

NoCall == [op |-> "none", colorspace |-> "Luma", ignore_alpha |-> FALSE,
           T |-> "U8", out_pixel |-> << >>, channel |-> 0]
NoResult == [ret |-> None, out |-> << >>]

\* the caller's out_pixel buffer before the call
OutBuffer(len) == [p \in 1..len |-> 100 + p]

FrameInit ==
    /\ frame \in Frames
    /\ host_le \in BOOLEAN
    /\ fpc = "idle"
    /\ fcall = NoCall
    /\ fresult = NoResult

SliceResult(r) == [ret |-> IF r.panic THEN Panic ELSE Ok, out |-> r.slice]
VecResult(r) == [ret |-> IF r.panic THEN Panic ELSE Ok, out |-> r.vec]

GetChannelsRef ==
    /\ fpc = "idle"
    /\ \E cs \in ColorSpaces, ia \in BOOLEAN :
          /\ fcall' = [NoCall EXCEPT !.op = "get_channels_ref", !.colorspace = cs,
                                     !.ignore_alpha = ia]
          /\ fresult' = SliceResult(get_channels_ref(frame, cs, ia))
    /\ fpc' = "returned"
    /\ UNCHANGED << frame, host_le, bvars, evars >>

GetChannelsMut ==
    /\ fpc = "idle"
    /\ \E cs \in ColorSpaces, ia \in BOOLEAN :
          /\ fcall' = [NoCall EXCEPT !.op = "get_channels_mut", !.colorspace = cs,
                                     !.ignore_alpha = ia]
          /\ fresult' = SliceResult(get_channels_mut(frame, cs, ia))
    /\ fpc' = "returned"
    /\ UNCHANGED << frame, host_le, bvars, evars >>

FlattenRgba ==
    /\ fpc = "idle"
    /\ \E cs \in ColorSpaces, len \in 0..(4 * MaxLen + 1) :
          /\ fcall' = [NoCall EXCEPT !.op = "flatten_rgba", !.colorspace = cs,
                                     !.out_pixel = OutBuffer(len)]
          /\ fresult' = flatten_rgba(frame, cs, OutBuffer(len))
    /\ fpc' = "returned"
    /\ UNCHANGED << frame, host_le, bvars, evars >>

Flatten ==
    /\ fpc = "idle"
    /\ \E cs \in ColorSpaces, T \in BitTypes :
          /\ fcall' = [NoCall EXCEPT !.op = "flatten", !.colorspace = cs, !.T = T]
          /\ fresult' = VecResult(flatten(frame, cs, T))
    /\ fpc' = "returned"
    /\ UNCHANGED << frame, host_le, bvars, evars >>

U16ToNativeEndian ==
    /\ fpc = "idle"
    /\ \E cs \in ColorSpaces :
          /\ fcall' = [NoCall EXCEPT !.op = "u16_to_native_endian", !.colorspace = cs]
          /\ fresult' = VecResult(u16_to_native_endian(frame, cs, host_le))
    /\ fpc' = "returned"
    /\ UNCHANGED << frame, host_le, bvars, evars >>

\* a typed view of one channel of the frame, as flatten_rgba and the filter
\* workers request it
ReinterpretAs ==
    /\ fpc = "idle"
    /\ \E k \in 1..Len(frame), T \in BitTypes :
          /\ fcall' = [NoCall EXCEPT !.op = "reinterpret_as", !.T = T, !.channel = k]
          /\ fresult' = LET r == reinterpret_as(frame[k], T)
                        IN  IF r.ok THEN [ret |-> Ok, out |-> r.view]
                            ELSE [ret |-> r.err, out |-> << >>]
    /\ fpc' = "returned"
    /\ UNCHANGED << frame, host_le, bvars, evars >>

FrameNext ==
    \/ ReinterpretAs
    \/ GetChannelsRef
    \/ GetChannelsMut
    \/ FlattenRgba
    \/ Flatten
    \/ U16ToNativeEndian

(* ------------------------------------------------------- exec_filter --- *)
\* OperationsTrait::execute: the gate on the image's element kind, then the
\* filter's execute_impl
execute(f, img, with_threads) ==
    IF img.depth \notin supported_types
    THEN [ret |-> NotImplemented(img.depth), channels |-> img.channels]
    ELSE execute_impl(f, img, with_threads)

NoImage == [depth |-> "U8", colorspace |-> "Luma", width |-> 0, height |-> 0,
            channels |-> << >>]
NoReturn == [tag |-> "none", err |-> None, some |-> FALSE, image |-> NoImage]

\* what exec_filter returns for the result r of the closure exec: Ok(None) or
\* Ok(Some(im)), the PyErr made from the error, or the unwinding panic
PyResult(r, some, im) ==
    IF r.ret = Ok THEN [NoReturn EXCEPT !.tag = "Ok", !.some = some, !.image = im]
    ELSE IF r.ret = Panic THEN [NoReturn EXCEPT !.tag = "panic"]
    ELSE [NoReturn EXCEPT !.tag = "Err", !.err = <<"Error converting">> \o r.ret]

ExecInit ==
    /\ py_img \in Images
    /\ py_orig = py_img
    /\ py_filter \in Filters
    /\ py_in_place \in BOOLEAN
    /\ py_threads \in BOOLEAN
    /\ py_clone = NoImage
    /\ py_pc = "call"
    /\ py_ret = NoReturn

\* lines 56-58: exec(img)?; Ok(None)
ExecInPlace ==
    /\ py_pc = "call"
    /\ py_in_place
    /\ LET r == execute(py_filter, py_img, py_threads)
       IN  /\ py_img' = [py_img EXCEPT !.channels = r.channels]
           /\ py_ret' = PyResult(r, FALSE, NoImage)
    /\ py_pc' = "returned"
    /\ UNCHANGED << py_orig, py_filter, py_in_place, py_threads, py_clone, bvars, fvars >>

\* line 60: let mut im_clone = img.clone()
CloneImage ==
    /\ py_pc = "call"
    /\ ~py_in_place
    /\ py_clone' = py_img
    /\ py_pc' = "cloned"
    /\ UNCHANGED << py_img, py_orig, py_filter, py_in_place, py_threads, py_ret,
                    bvars, fvars >>

\* the slip of running exec on the caller's image and returning a copy of it
ExecOnCallersImage ==
    /\ py_pc = "cloned"
    /\ LET r == execute(py_filter, py_img, py_threads)
       IN  /\ py_img' = [py_img EXCEPT !.channels = r.channels]
           /\ py_clone' = IF r.ret = Ok THEN [py_img EXCEPT !.channels = r.channels]
                          ELSE NoImage
           /\ py_ret' = PyResult(r, TRUE, [py_img EXCEPT !.channels = r.channels])
    /\ py_pc' = "returned"
    /\ UNCHANGED << py_orig, py_filter, py_in_place, py_threads, bvars, fvars >>

\* lines 61-63: exec(&mut im_clone)?; Ok(Some(im_clone)); on the error and on
\* a panic im_clone is dropped
ExecOnClone ==
    /\ py_pc = "cloned"
    /\ LET r == execute(py_filter, py_clone, py_threads)
       IN  /\ py_clone' = IF r.ret = Ok THEN [py_clone EXCEPT !.channels = r.channels]
                          ELSE NoImage
           /\ py_ret' = PyResult(r, TRUE, [py_clone EXCEPT !.channels = r.channels])
    /\ py_pc' = "returned"
    /\ UNCHANGED << py_img, py_orig, py_filter, py_in_place, py_threads, bvars, fvars >>

ExecNext ==
    \/ ExecInPlace
    \/ CloneImage
    \/ ExecOnClone

(* ---------------------------------------------------- specifications --- *)
\* the parts of the state that a specification does not use stay as they are
ExecuteIdle ==
    /\ filter = [d |-> 1, sigma_color |-> 10, sigma_space |-> 10]
    /\ image = NoImage
    /\ orig = << >>
    /\ threads = FALSE
    /\ pc = "off"
    /\ coeffs = NoCoeffs
    /\ idx = 0
    /\ wpc = << >>
    /\ new_channel = << >>
    /\ wres = << >>
    /\ collected = None
    /\ ret = None

FrameIdle ==
    /\ frame = << >>
    /\ host_le = TRUE
    /\ fpc = "off"
    /\ fcall = NoCall
    /\ fresult = NoResult

ExecIdle ==
    /\ py_img = NoImage
    /\ py_orig = NoImage
    /\ py_filter = [d |-> 1, sigma_color |-> 10, sigma_space |-> 10]
    /\ py_in_place = FALSE
    /\ py_threads = FALSE
    /\ py_clone = NoImage
    /\ py_pc = "off"
    /\ py_ret = NoReturn

\* one call of BilateralFilter::execute_impl
Init == ExecuteInit /\ FrameIdle /\ ExecIdle

Next ==
    \/ Call
    \/ Spawn
    \/ SpawnEnd
    \/ Worker
    \/ Join
    \/ JoinEnd
    \/ ScopeEnd
    \/ LoopAlloc
    \/ LoopCompute
    \/ LoopStore
    \/ LoopEnd

Spec == Init /\ [][Next]_vars

\* one call of a Frame method
InitFrame == FrameInit /\ ExecuteIdle /\ ExecIdle

SpecFrame == InitFrame /\ [][FrameNext]_vars

\* one call of exec_filter
InitExec == ExecInit /\ ExecuteIdle /\ FrameIdle

SpecExec == InitExec /\ [][ExecNext]_vars

(* ------------------------------------------- the bilateral claims --- *)
\* the image as it was handed to execute_impl
OrigImage == [image EXCEPT !.channels = orig]

Returned == pc \in {"done", "panicked"}

\* the computation of channel k succeeds: the depth has a computing arm and
\* the channel's stored kind is the depth's
Succeeds(k) == image.depth \in {"U8", "U16"} /\ orig[k].kind = image.depth

\* the complete filtered result of channel k
Filtered(k) ==
    Channel(image.depth,
            bilateral_filter_int(orig[k].data, [i \in 1..Len(orig[k].data) |-> 0],
                                 image.width, image.height,
                                 init_bilateral(filter.d, filter.sigma_color,
                                                filter.sigma_space,
                                                max_value(image.depth) + 1),
                                 image.depth))

\* the failing channels of the call, and the error of a failing channel
Failing == {k \in Workers : ~Succeeds(k)}
FailureOf(k) ==
    IF image.depth \in {"U8", "U16"}
    THEN <<"WrongTypeId", orig[k].kind, image.depth>>
    ELSE NotImplemented(image.depth)

\* The walk through execute_impl and its run-to-completion form agree.
RunAgrees ==
    Returned =>
        [ret |-> ret, channels |-> image.channels] = execute_impl(filter, OrigImage, threads)

\* C1: executing the filter on an image whose element kind is not in
\* supported_types() always returns OperationNotImplemented and leaves every
\* channel with the content it had before the call.
C1_UnsupportedKindRejected ==
    (Returned /\ image.depth \notin supported_types) =>
        /\ ret = NotImplemented(image.depth)
        /\ image.channels = orig

\* C1, for the calls whose init_bilateral completes
C1_UnsupportedKindRejectedAfterInit ==
    (pc = "done" /\ image.depth \notin supported_types) =>
        /\ ret = NotImplemented(image.depth)
        /\ image.channels = orig

\* C2: for every input image, the threaded path under every interleaving and
\* the sequential path end with the same returned result and the same content
\* in every channel: what this run ended with is what the other path ends with.
C2_PathsAgree ==
    Returned =>
        [ret |-> ret, channels |-> image.channels] = execute_impl(filter, OrigImage, ~threads)

\* C2, for the images none of whose channels fails
C2_PathsAgreeWithoutFailure ==
    (Returned /\ Failing = {}) =>
        [ret |-> ret, channels |-> image.channels] = execute_impl(filter, OrigImage, ~threads)

\* C3: in every reachable state each channel of the image holds either its
\* complete original content or its complete filtered result; a channel whose
\* computation fails keeps its original content.
C3_ChannelsWhole ==
    \A k \in 1..Len(image.channels) :
        \/ image.channels[k] = orig[k]
        \/ k \in Workers /\ Succeeds(k) /\ image.channels[k] = Filtered(k)

\* C3's case: mid-run, one channel already replaced by a result that differs
\* from its original, another worker holding a computed buffer not yet
\* written back, and a third channel whose computation failed
C3_Witness ==
    /\ ~Returned
    /\ \E k, j, f \in Workers :
          /\ image.channels[k] # orig[k]
          /\ wpc[j] = "computed" /\ image.channels[j] = orig[j]
          /\ new_channel[j] # orig[j]
          /\ wpc[f] = "finished" /\ wres[f] # Ok /\ image.channels[f] = orig[f]

\* C4: when the computation of some channel fails, the call returns only
\* after every channel's worker has finished, the error returned is that of
\* the lowest-index failing channel, and every channel whose own computation
\* succeeded holds its filtered result.
C4_FirstErrorAfterAll ==
    (pc = "done" /\ Failing # {}) =>
        /\ threads => \A k \in Workers : wpc[k] = "finished"
        /\ \E k \in Failing : (\A j \in Failing : k <= j) /\ ret = FailureOf(k)
        /\ \A k \in Workers : Succeeds(k) => image.channels[k] = Filtered(k)

\* C4, on the threaded path alone
C4_FirstErrorAfterAllThreads ==
    (pc = "done" /\ Failing # {} /\ threads) =>
        /\ \A k \in Workers : wpc[k] = "finished"
        /\ \E k \in Failing : (\A j \in Failing : k <= j) /\ ret = FailureOf(k)
        /\ \A k \in Workers : Succeeds(k) => image.channels[k] = Filtered(k)

(* ------------------------------------------- the exec_filter claim --- *)
\* the filter applied to a copy of the caller's original image
Applied == execute(py_filter, py_orig, py_threads)
AppliedImage == [py_orig EXCEPT !.channels = Applied.channels]

\* C5: exec_filter with in_place = false never changes the caller's image,
\* whether the filter succeeds or fails: on success it returns a new image
\* equal to the filter applied to a copy of the original, on failure the error
\* and no image.  With in_place = true it returns no image and the filter is
\* applied to the caller's image itself.
C5_ExecFilter ==
    py_pc = "returned" =>
        /\ ~py_in_place => py_img = py_orig
        /\ (~py_in_place /\ Applied.ret = Ok) =>
              py_ret.tag = "Ok" /\ py_ret.some /\ py_ret.image = AppliedImage
        /\ (~py_in_place /\ Applied.ret \notin {Ok, Panic}) =>
              /\ py_ret.tag = "Err" /\ py_ret.err = <<"Error converting">> \o Applied.ret
              /\ ~py_ret.some /\ py_ret.image = NoImage
        /\ py_in_place =>
              /\ ~py_ret.some /\ py_ret.image = NoImage
              /\ py_img = AppliedImage
              /\ py_ret.tag = "Ok" <=> Applied.ret = Ok

\* C5's case: a copy was asked for and the filter failed after it had
\* replaced a channel of the image it worked on
C5_Witness ==
    /\ py_pc = "returned"
    /\ ~py_in_place
    /\ py_ret.tag = "Err"
    /\ Applied.channels # py_orig.channels
    /\ py_img = py_orig

(* ------------------------------------------------- the Frame claims --- *)
FReturned(op) == fpc = "returned" /\ fcall.op = op

\* the samples each channel of the frame holds
FrameN == IF Len(frame) = 0 THEN 0 ELSE Len(frame[1].data)

AllKind(kind) == \A k \in 1..Len(frame) : frame[k].kind = kind

\* the number of components of the colorspace of the call
CallN ==
    CASE fcall.colorspace = "Luma" -> 1
      [] fcall.colorspace = "LumaA" -> 2
      [] fcall.colorspace = "RGB" -> 3
      [] fcall.colorspace \in {"RGBA", "CMYK"} -> 4

\* C6: for a frame holding at least num_components(colorspace) channels,
\* get_channels_ref and get_channels_mut both return, in order, exactly the
\* first num_components(colorspace) channels, except that they return the first
\* num_components(colorspace) - 1 when ignore_alpha is true and the colorspace
\* has alpha; in no other case is a channel dropped.
C6_ChannelWindow ==
    ((FReturned("get_channels_ref") \/ FReturned("get_channels_mut"))
        /\ Len(frame) >= CallN) =>
        /\ fresult.ret = Ok
        /\ LET m == IF fcall.ignore_alpha /\ fcall.colorspace \in {"LumaA", "RGBA"}
                    THEN CallN - 1 ELSE CallN
           IN  /\ Len(fresult.out) = m
               /\ \A k \in 1..m : fresult.out[k] = frame[k]

\* C6's case: the alpha channel of an RGBA frame dropped
C6_Witness ==
    /\ FReturned("get_channels_mut")
    /\ fcall.colorspace = "RGBA" /\ fcall.ignore_alpha
    /\ Len(frame) = 4 /\ FrameN > 0
    /\ Len(fresult.out) = 3

\* the pixel the claim gives for sample i (1-based) of an n-component frame
RgbaPixel(n, i) ==
    CASE n = 1 -> << frame[1].data[i], frame[1].data[i], frame[1].data[i], 255 >>
      [] n = 2 -> << frame[1].data[i], frame[1].data[i], frame[1].data[i], frame[2].data[i] >>
      [] n = 3 -> << frame[1].data[i], frame[2].data[i], frame[3].data[i], 255 >>
      [] n = 4 -> << frame[1].data[i], frame[2].data[i], frame[3].data[i], frame[4].data[i] >>

\* C7 as stated: for an all-8-bit frame with N samples per channel and a
\* colorspace of n components, a successful flatten_rgba writes exactly 4
\* bytes for each of the N pixels: bytes 4i..4i+3 of out are the pixel i.
C7_RgbaEveryPixel ==
    (FReturned("flatten_rgba") /\ AllKind("U8") /\ fresult.ret = Ok) =>
        \A i \in 1..FrameN :
            /\ Len(fresult.out) >= 4 * i
            /\ SubSeq(fresult.out, 4 * i - 3, 4 * i) = RgbaPixel(CallN, i)

\* C7 as amended: the pixels written are the first min(N, len(out) div 4),
\* all N of them when out holds at least 4N bytes; every other byte of out
\* keeps the value it had.
C7_RgbaPixelsThatFit ==
    (FReturned("flatten_rgba") /\ AllKind("U8") /\ fresult.ret = Ok) =>
        LET fit == IF Len(fcall.out_pixel) \div 4 < FrameN
                   THEN Len(fcall.out_pixel) \div 4 ELSE FrameN
        IN  /\ Len(fresult.out) = Len(fcall.out_pixel)
            /\ \A i \in 1..fit :
                  SubSeq(fresult.out, 4 * i - 3, 4 * i) = RgbaPixel(CallN, i)
            /\ \A p \in (4 * fit + 1)..Len(fresult.out) :
                  fresult.out[p] = fcall.out_pixel[p]

\* C7's case: a two-component frame of two pixels written whole into a
\* buffer that has room to spare
C7_Witness ==
    /\ FReturned("flatten_rgba") /\ AllKind("U8") /\ fresult.ret = Ok
    /\ CallN = 2 /\ FrameN = 2
    /\ Len(fcall.out_pixel) = 9
    /\ SubSeq(fresult.out, 5, 8) = RgbaPixel(2, 2)
    /\ fresult.out[9] = fcall.out_pixel[9]

IsWrongTypeId(r) == Len(r) > 0 /\ r[1] = "WrongTypeId"

\* C8 as stated: flatten_rgba returns WrongTypeId exactly when at least one
\* of the first num_components channels is not 8-bit, whatever the kind of
\* the channels outside the selection.
C8_WrongTypeOfSelected ==
    (FReturned("flatten_rgba") /\ Len(frame) >= CallN) =>
        (IsWrongTypeId(fresult.ret) <=> \E k \in 1..CallN : frame[k].kind # "U8")

\* C8 as amended: flatten_rgba returns WrongTypeId exactly when at least one
\* channel of the frame, selected by the colorspace or not, is not 8-bit; the
\* error names the kind of the first such channel.
C8_WrongTypeOfAnyChannel ==
    FReturned("flatten_rgba") =>
        /\ IsWrongTypeId(fresult.ret) <=> \E k \in 1..Len(frame) : frame[k].kind # "U8"
        /\ IsWrongTypeId(fresult.ret) =>
              \E k \in 1..Len(frame) :
                  /\ frame[k].kind # "U8"
                  /\ \A j \in 1..(k - 1) : frame[j].kind = "U8"
                  /\ fresult.ret = <<"WrongTypeId", frame[k].kind, "U8">>
                  /\ fresult.out = fcall.out_pixel

\* C8's case: every selected channel is 8-bit, a channel outside the
\* selection is not, and the call fails
C8_Witness ==
    /\ FReturned("flatten_rgba")
    /\ Len(frame) > CallN
    /\ \A k \in 1..CallN : frame[k].kind = "U8"
    /\ IsWrongTypeId(fresult.ret)

\* u16::from_ne_bytes on a little-endian or big-endian host
from_ne_bytes(b0, b1, little) == IF little THEN b0 + 256 * b1 ELSE 256 * b0 + b1

\* C9: for a frame of 16-bit channels each holding N samples and a colorspace
\* of n components, u16_to_native_endian returns exactly 2*N*n bytes, and the
\* byte pair at positions 2*(i*n+k), 2*(i*n+k)+1 decoded in the host's byte
\* order is sample i of channel k; one sample 50000 under Luma gives [80,195]
\* on a little-endian host.
C9_NativeEndianRoundTrip ==
    (FReturned("u16_to_native_endian") /\ AllKind("U16") /\ Len(frame) >= CallN) =>
        /\ fresult.ret = Ok
        /\ Len(fresult.out) = 2 * FrameN * CallN
        /\ \A i \in 0..(FrameN - 1), k \in 0..(CallN - 1) :
              from_ne_bytes(fresult.out[2 * (i * CallN + k) + 1],
                            fresult.out[2 * (i * CallN + k) + 2], host_le)
                  = frame[k + 1].data[i + 1]
        /\ (host_le /\ CallN = 1 /\ frame[1].data = <<50000>>) => fresult.out = <<80, 195>>

\* C9's case: one sample 50000 under Luma on a little-endian host
C9_Witness ==
    /\ FReturned("u16_to_native_endian") /\ host_le
    /\ fcall.colorspace = "Luma"
    /\ Len(frame) = 1 /\ frame[1].kind = "U16" /\ frame[1].data = <<50000>>
    /\ fresult.out = <<80, 195>>

\* the bytes flatten_rgba writes into a buffer of four bytes per pixel
RgbaBytes == flatten_rgba(frame, fcall.colorspace, OutBuffer(4 * FrameN)).out

\* C10 as stated: for an 8-bit frame and every component count 1..4, the
\* sequence flatten::<u8> returns equals the bytes flatten_rgba writes.
C10_FlattenIsRgba ==
    (FReturned("flatten") /\ fcall.T = "U8" /\ AllKind("U8") /\ Len(frame) >= CallN) =>
        fresult.ret = Ok /\ fresult.out = RgbaBytes

\* C10 as amended: flatten::<u8> returns the n components of each pixel and
\* nothing else: N*n elements, sample i of channel k at position i*n+k; it
\* equals the bytes flatten_rgba writes for the 4-component colorspaces only.
C10_FlattenInterleaves ==
    (FReturned("flatten") /\ fcall.T = "U8" /\ AllKind("U8") /\ Len(frame) >= CallN) =>
        /\ fresult.ret = Ok
        /\ Len(fresult.out) = FrameN * CallN
        /\ \A i \in 0..(FrameN - 1), k \in 0..(CallN - 1) :
              fresult.out[i * CallN + k + 1] = frame[k + 1].data[i + 1]
        /\ CallN = 4 => fresult.out = RgbaBytes
        /\ (CallN < 4 /\ FrameN > 0) => fresult.out # RgbaBytes

\* C10's case: a three-component 8-bit frame of two pixels flattened to six
\* elements where flatten_rgba writes eight bytes
C10_Witness ==
    /\ FReturned("flatten") /\ fcall.T = "U8" /\ AllKind("U8")
    /\ CallN = 3 /\ FrameN = 2
    /\ Len(fresult.out) = 6 /\ Len(RgbaBytes) = 8

(* --------------------------------- the claims on kinds and the tables --- *)
\* every channel of the image is stored with the image's element kind
AllOfDepth == \A k \in 1..Len(orig) : orig[k].kind = image.depth

\* C11: for every element kind listed in supported_types(), executing the
\* filter on an image whose channels all have that kind returns Ok: the
\* dispatch has a computing branch for the kind and yields neither
\* OperationNotImplemented nor a type-mismatch error.
C11_SupportedKindsReturnOk ==
    (Returned /\ image.depth \in supported_types /\ AllOfDepth) => ret = Ok

\* C11, for the calls whose init_bilateral completes: the dispatch itself
\* never rejects a declared kind
C11_SupportedKindsReturnOkAfterInit ==
    (pc = "done" /\ image.depth \in supported_types /\ AllOfDepth) => ret = Ok

\* C12: for a channel of kind K a typed view of kind K always succeeds and
\* has the channel's element count (its byte length over the element size);
\* a view of any other kind always fails with WrongTypeId and yields no data,
\* and flatten_rgba on a frame with a channel of another kind than u8 fails
\* with it and writes nothing.
C12_ReinterpretChecksKind ==
    /\ FReturned("reinterpret_as") =>
          LET ch == frame[fcall.channel]
          IN  IF ch.kind = fcall.T
              THEN /\ fresult.ret = Ok
                   /\ Len(fresult.out) * size_of(fcall.T) = channel_len(ch)
                   /\ fresult.out = ch.data
              ELSE /\ fresult.ret = <<"WrongTypeId", ch.kind, fcall.T>>
                   /\ fresult.out = << >>
    /\ (FReturned("flatten_rgba") /\ ~AllKind("U8")) =>
          /\ IsWrongTypeId(fresult.ret)
          /\ fresult.out = fcall.out_pixel

\* C12's case: a view of another kind was asked of a channel that holds samples
C12_Witness ==
    /\ FReturned("reinterpret_as")
    /\ frame[fcall.channel].kind = "U16" /\ fcall.T = "U8"
    /\ Len(frame[fcall.channel].data) = MaxLen
    /\ fresult.ret # Ok

\* C12 in the filter: a worker or loop iteration given a channel whose kind is
\* not the depth's ends with WrongTypeId and the channel as it was
C12_WorkerFailsOnWrongKind ==
    \A k \in Workers :
        (image.depth \in supported_types /\ orig[k].kind # image.depth) =>
            /\ image.channels[k] = orig[k]
            /\ (threads /\ wpc[k] = "finished") =>
                   wres[k] = <<"WrongTypeId", orig[k].kind, image.depth>>

\* init_bilateral has returned the tables of this call
TablesReady == pc \notin {"off", "call", "panicked"}

\* the squared distance from the window centre of the k-th element (1-based)
\* of the row-major (2 * radius + 1)^2 window
WindowR2(radius, k) ==
    LET dy == ((k - 1) \div (2 * radius + 1)) - radius
        dx == ((k - 1) % (2 * radius + 1)) - radius
    IN  dx * dx + dy * dy

\* C13: window ordering and weight-table ordering agree: for every k < makx,
\* space_weight[k] is the spatial Gaussian weight (with the coefficient of the
\* call) of the offset from the window centre of window element area[k].
C13_TableFollowsWindow ==
    TablesReady =>
        \A k \in 1..coeffs.makx :
            coeffs.space_weight[k] = gauss(WindowR2(coeffs.radius, k), filter.sigma_space)

\* C13, for the one-element window of radius 0
C13_TableFollowsWindowRadius0 ==
    (TablesReady /\ coeffs.radius = 0) =>
        \A k \in 1..coeffs.makx :
            coeffs.space_weight[k] = gauss(WindowR2(coeffs.radius, k), filter.sigma_space)

\* the index (0-based) of the centre of the row-major (2 * radius + 1)^2 window
WindowCentre(radius) == radius * (2 * radius + 1) + radius

\* C14: area[mid] with mid = (radius + 1) / 2 is the centre element of the
\* window handed to the kernel, so val0 is the value of the pixel being
\* filtered, for every pixel of every channel the kernel runs on.
C14_MidIsCentre ==
    TablesReady =>
        /\ bilateral_mid(coeffs.radius) = WindowCentre(coeffs.radius)
        /\ \A k \in Workers : Succeeds(k) =>
              \A p \in 1..(image.width * image.height) :
                  window(orig[k].data, image.width, image.height, coeffs.radius,
                         (p - 1) % image.width, (p - 1) \div image.width)
                      [bilateral_mid(coeffs.radius) + 1] = orig[k].data[p]

\* C14, for the one-element window of radius 0
C14_MidIsCentreRadius0 ==
    (TablesReady /\ coeffs.radius = 0) =>
        /\ bilateral_mid(coeffs.radius) = WindowCentre(coeffs.radius)
        /\ \A k \in Workers : Succeeds(k) =>
              \A p \in 1..(image.width * image.height) :
                  window(orig[k].data, image.width, image.height, coeffs.radius,
                         (p - 1) % image.width, (p - 1) \div image.width)
                      [bilateral_mid(coeffs.radius) + 1] = orig[k].data[p]

\* the offsets (i, j) of the square with i * i + j * j <= radius * radius, in
\* the order i outer, j inner
InCircle(radius) ==
    SelectSeq(Offsets(radius),
              LAMBDA o : o[1] * o[1] + o[2] * o[2] <= radius * radius)

\* the sigma_space the radius is taken from: non-positive values become 1.0
ClampedSigmaSpace == IF filter.sigma_space <= 0 THEN 10 ELSE filter.sigma_space

\* C15: after init_bilateral, radius is d / 2 when d > 0 and
\* round(1.5 * sigma_space) when d <= 0, makx is the number of offsets of the
\* square inside the circle of that radius, the first makx entries of
\* space_weight are the weights of exactly those offsets in the order i outer,
\* j inner, and makx <= (2 * radius + 1)^2.
C15_MakxCountsCircle ==
    TablesReady =>
        /\ coeffs.radius = IF filter.d > 0 THEN filter.d \div 2
                           ELSE (15 * ClampedSigmaSpace + 50) \div 100
        /\ coeffs.makx = Len(InCircle(coeffs.radius))
        /\ coeffs.makx <= Len(coeffs.space_weight)
        /\ \A k \in 1..coeffs.makx :
              coeffs.space_weight[k] =
                  gauss(InCircle(coeffs.radius)[k][1] * InCircle(coeffs.radius)[k][1]
                          + InCircle(coeffs.radius)[k][2] * InCircle(coeffs.radius)[k][2],
                        filter.sigma_space)
        /\ coeffs.makx <= (2 * coeffs.radius + 1) * (2 * coeffs.radius + 1)

\* C15's case: a radius derived from sigma_space (d <= 0), with corners of
\* the square left out of the table
C15_Witness ==
    /\ TablesReady
    /\ filter.d <= 0
    /\ coeffs.radius = 2
    /\ coeffs.makx = 13
    /\ \E k \in 1..coeffs.makx : coeffs.space_weight[k] # coeffs.space_weight[1]

\* the squared distance from the centre of the k-th offset inside the circle
CircleR2(radius, k) ==
    InCircle(radius)[k][1] * InCircle(radius)[k][1]
        + InCircle(radius)[k][2] * InCircle(radius)[k][2]

\* C16: a sigma_space <= 0 is clamped to 1.0 before use: the space Gaussian
\* coefficient -0.5 / sigma_space^2, hence every space weight, and (when
\* d <= 0) the radius are computed from 1.0, never from the value passed.
C16_SigmaSpaceClamped ==
    (TablesReady /\ filter.sigma_space <= 0) =>
        /\ filter.d <= 0 => coeffs.radius = 2
        /\ \A k \in 1..coeffs.makx :
              coeffs.space_weight[k] = gauss(CircleR2(coeffs.radius, k), 10)

\* C16, for the radius alone
C16_RadiusFromClamped ==
    (TablesReady /\ filter.sigma_space <= 0 /\ filter.d <= 0) => coeffs.radius = 2

\* C17: in every execution the colour and space weight tables are computed
\* exactly once, before the computation of any channel starts, and never
\* modified afterwards; every channel computation reads those same tables,
\* and a step of one worker changes nothing of another worker.
C17_TablesOnceAndPrivate ==
    [][ /\ (pc = "call") =>
              /\ \A k \in Workers : wpc[k] = "none" /\ new_channel[k] = None
              /\ image.channels = orig
              /\ (pc' \notin {"call", "panicked"}) =>
                    (coeffs' = init_bilateral(filter.d, filter.sigma_color,
                                              filter.sigma_space,
                                              max_value(image.depth) + 1))
        /\ (pc # "call") => (coeffs' = coeffs)
        /\ \A k \in Workers :
              (wpc'[k] = "computed" \/ (pc' = "store" /\ idx' = k)) =>
                  (new_channel'[k] = Filtered(k))
        /\ \A k \in Workers :
              (wpc[k] \in {"spawned", "allocated", "computed"} /\ wpc'[k] # wpc[k]) =>
                  \A j \in Workers \ {k} :
                      /\ wpc'[j] = wpc[j]
                      /\ new_channel'[j] = new_channel[j]
                      /\ wres'[j] = wres[j]
                      /\ image'.channels[j] = image.channels[j]
      ]_vars

\* C17's case: two workers at different points of their computation, both
\* past the kernel, with tables of more than one entry
C17_Witness ==
    /\ threads
    /\ coeffs.makx > 1
    /\ \E k, j \in Workers :
          /\ wpc[k] = "computed"
          /\ wpc[j] = "finished" /\ wres[j] = Ok
          /\ image.channels[j] # orig[j]

\* every weight the kernel applies to a window of one intensity is the same:
\* the space weights of the table all equal the centre's exp(0), and so does
\* the colour weight of the difference 0
EqualWeights ==
    /\ \A i \in 1..coeffs.makx : coeffs.space_weight[i] = One
    /\ color_weight_at(coeffs.color_weight, 0) = One

\* the kernel has filled new_channel[k]
Computed(k) ==
    \/ wpc[k] = "computed"
    \/ wpc[k] = "finished" /\ wres[k] = Ok
    \/ ~threads /\ pc \in {"loop", "store", "done"} /\ (idx > k \/ (pc = "store" /\ idx = k))

\* the window of pixel p (1-based) of channel k
WindowOf(k, p) ==
    window(orig[k].data, image.width, image.height, coeffs.radius,
           (p - 1) % image.width, (p - 1) \div image.width)

\* C18: when all weights are equal, a pixel whose whole (2 * radius + 1)^2
\* window has the single intensity v is output as v, for every radius and
\* every v of the element kind.
C18_FlatWindowKept ==
    (TablesReady /\ EqualWeights) =>
        \A k \in Workers : Computed(k) =>
            \A p \in 1..(image.width * image.height) :
                (\A i \in 1..Len(WindowOf(k, p)) : WindowOf(k, p)[i] = WindowOf(k, p)[1]) =>
                    new_channel[k].data[p] = WindowOf(k, p)[1]

\* C18's case: a flat channel of a positive intensity filtered with a window
\* of more than one pixel
C18_Witness ==
    /\ TablesReady /\ EqualWeights
    /\ coeffs.radius >= 1
    /\ \E k \in Workers :
          /\ Computed(k)
          /\ \A p \in 1..Len(orig[k].data) : orig[k].data[p] = 100
          /\ new_channel[k].data = orig[k].data

\* the tables init_bilateral gives for the filter and the image of the call
TablesOfCall ==
    init_bilateral(filter.d, filter.sigma_color, filter.sigma_space,
                   max_value(image.depth) + 1)

\* C19: for every window diameter d (positive, zero or negative) and every
\* sigma_space, init_bilateral only writes inside the space-weight table it
\* allocated, so setup completes and returns for every parameter combination.
C19_InitWritesInBounds ==
    pc \notin {"off", "call"} =>
        /\ ~TablesOfCall.panic
        /\ pc # "panicked"

\* C19 holds exactly for the parameters whose circle has at most d * d offsets
C19_InBoundsWhenCircleFits ==
    LET radius == IF filter.d > 0 THEN filter.d \div 2
                  ELSE (15 * ClampedSigmaSpace + 50) \div 100
    IN  TablesOfCall.panic <=> Len(InCircle(radius)) > filter.d * filter.d

\* C20: the filter processes only the channels selected with alpha excluded:
\* for an image in an alpha-bearing colorspace the last (alpha) channel holds
\* the same content after execute as before, on success and on failure, on the
\* threaded and on the sequential path; no worker is ever given it.
C20_AlphaUntouched ==
    has_alpha(image.colorspace) =>
        /\ Len(image.channels) = num_components(image.colorspace)
        /\ image.channels[Len(image.channels)] = orig[Len(orig)]
        /\ Workers = 1..(Len(image.channels) - 1)

\* C20's case: a returned call on an RGBA image whose colour channels were
\* all replaced by results that differ from the originals
C20_Witness ==
    /\ pc = "done" /\ ret = Ok
    /\ image.colorspace = "RGBA"
    /\ \A k \in 1..3 : image.channels[k] # orig[k]
    /\ image.channels[4] = orig[4]
    /\ \E i \in 1..Len(orig[4].data) : orig[4].data[i] # 0

\* C21: the filter preserves the shape of the image: in every state, after a
\* successful or a failed execute included, the image has the same number of
\* channels in the same order, and every channel has the same length and the
\* same element kind as before the call.
C21_ShapePreserved ==
    /\ Len(image.channels) = Len(orig)
    /\ \A k \in 1..Len(orig) :
          /\ image.channels[k].kind = orig[k].kind
          /\ Len(image.channels[k].data) = Len(orig[k].data)
          /\ channel_len(image.channels[k]) = channel_len(orig[k])
          /\ image.channels[k] # orig[k] => (k \in Workers /\ image.channels[k] = Filtered(k))

\* C21's case: a returned call on a 16-bit image, one channel replaced by a
\* result that differs from the original and another left as it was by its
\* failed computation
C21_Witness ==
    /\ pc = "done" /\ ret # Ok
    /\ image.depth = "U16"
    /\ \E k, f \in Workers :
          /\ image.channels[k] # orig[k]
          /\ Len(image.channels[k].data) = ImgW * ImgH
          /\ orig[f].kind # image.depth /\ image.channels[f] = orig[f]

====
